---------------------------- MODULE Spec2Model ----------------------------
(***************************************************************************)
(* Tic Tac Toe backend (src/tic_tac_toe_backend/src/api/main.py).          *)
(*                                                                         *)
(* The state is the process-wide dict GAMES (game_id -> stored game dict)   *)
(* and the set of identifiers uuid4 has handed out.  Each endpoint is an   *)
(* operator from (store, request) to (store after, HTTP response); an      *)
(* action applies one endpoint to the current store.                       *)
(***************************************************************************)
EXTENDS Integers, Sequences, FiniteSets, TLC

\* Number of distinct identifiers uuid4 can hand out in a run.
MaxGames == 2

\* The identifiers uuid4 can return.
Ids == 1..MaxGames

\* The game_id path parameter of a request: any identifier, among them one
\* (0) that uuid4 never returns.
RequestIds == 0..MaxGames

\* PLAYER = Literal["X", "O"]
PLAYER == {"X", "O"}

\* Python's None (an empty cell, an absent winner, an absent response body).
None == "None"

\* MoveRequest.position: int, ge=0, le=8
Positions == 0..8

\* Clients play every cell of game 1; on the other games they only ever ask
\* for the cells of SidePositions.
SidePositions == {4}

PlayedOn(game_id) == IF game_id = 1 THEN Positions ELSE SidePositions

\* win_lines without the diagonal (0, 4, 8).
win_lines_NoDiagonal ==
    << <<0, 1, 2>>, <<3, 4, 5>>, <<6, 7, 8>>,
       <<0, 3, 6>>, <<1, 4, 7>>, <<2, 5, 8>>,
       <<2, 4, 6>> >>

\* win_lines without the top row (0, 1, 2).
win_lines_NoTopRow ==
    << <<3, 4, 5>>, <<6, 7, 8>>,
       <<0, 3, 6>>, <<1, 4, 7>>, <<2, 5, 8>>,
       <<0, 4, 8>>, <<2, 4, 6>> >>

\* The local list win_lines of _calculate_winner, in source order.
win_lines ==
    << <<0, 1, 2>>, <<3, 4, 5>>, <<6, 7, 8>>,
       <<0, 3, 6>>, <<1, 4, 7>>, <<2, 5, 8>>,
       <<0, 4, 8>>, <<2, 4, 6>> >>

\* [None] * 9
EmptyBoard == [i \in Positions |-> None]

\* GameState(**data): validates the fields and builds a model object from
\* them.  The board is a new list with the same cells (pydantic rebuilds it),
\* so the object shares nothing with the stored dict.
GameState(data) ==
    [game_id        |-> data.game_id,
     board          |-> data.board,
     current_player |-> data.current_player,
     winner         |-> data.winner,
     is_draw        |-> data.is_draw,
     moves_count    |-> data.moves_count]

\* game.dict(): a new dict of the model's fields, the board again a new list
\* with the same cells.
dict(game) ==
    [game_id        |-> game.game_id,
     board          |-> game.board,
     current_player |-> game.current_player,
     winner         |-> game.winner,
     is_draw        |-> game.is_draw,
     moves_count    |-> game.moves_count]

\* The test of line 60 without its last comparison, board[b] == board[c].
LineWins_TwoCells(board, i) ==
    LET a == win_lines[i][1]
        b == win_lines[i][2]
    IN  board[a] # None /\ board[a] = board[b]

\* The test of line 60 on the i-th line of win_lines.
LineWins(board, i) ==
    LET a == win_lines[i][1]
        b == win_lines[i][2]
        c == win_lines[i][3]
    IN  board[a] # None /\ board[a] = board[b] /\ board[b] = board[c]

RECURSIVE ScanLines(_, _)
\* The for loop of _calculate_winner from the i-th line on: the first line
\* that wins decides.
ScanLines(board, i) ==
    IF i > Len(win_lines) THEN None
    ELSE IF LineWins(board, i) THEN board[win_lines[i][1]]
    ELSE ScanLines(board, i + 1)

_calculate_winner(board) == ScanLines(board, 1)

\* _is_draw that never reports a full board.
_is_draw_Never(board) == FALSE

\* all(cell is not None for cell in board)
_is_draw(board) == \A i \in DOMAIN board : board[i] # None

\* raise HTTPException(status_code, detail): the store is left as it is.
HTTPException(G, status_code, detail) ==
    [GAMES |-> G, status |-> status_code, detail |-> detail, body |-> None]

\* A handler's normal return: FastAPI serialises the returned model.
Return(G, status_code, game) ==
    [GAMES |-> G, status |-> status_code, detail |-> None, body |-> dict(game)]

\* GAMES = {game_id: value}: the assignment replaces the whole dict.
SetItem_Replace(G, game_id, value) == [k \in {game_id} |-> value]

\* GAMES[game_id] = value with every key of the dict bound to the one record.
SetItem_SharedRecord(G, game_id, value) ==
    [k \in DOMAIN G \cup {game_id} |-> value]

\* GAMES[game_id] = value that keeps, in the cells value leaves empty, the
\* marks of the record stored so far.
SetItem_MergeBoards(G, game_id, value) ==
    LET merged == IF game_id \notin DOMAIN G THEN value
                  ELSE [value EXCEPT !.board =
                            [i \in DOMAIN value.board |->
                                IF value.board[i] # None THEN value.board[i]
                                ELSE G[game_id].board[i]]]
    IN  [k \in DOMAIN G \cup {game_id} |-> IF k = game_id THEN merged ELSE G[k]]

\* GAMES[game_id] = value
SetItem(G, game_id, value) ==
    [k \in DOMAIN G \cup {game_id} |-> IF k = game_id THEN value ELSE G[k]]

\* _require_game: data = GAMES.get(game_id); 404 when absent.
_require_game(G, game_id) ==
    IF game_id \notin DOMAIN G
    THEN [found |-> FALSE]
    ELSE [found |-> TRUE, game |-> GameState(G[game_id])]

\* CreateGameRequest: first_player defaults to "X" when the body omits it.
CreateGameRequest(first_player) ==
    [first_player |-> IF first_player = None THEN "X" ELSE first_player]

\* create_game that starts every game with "X".
create_game_AlwaysX(G, game_id, body) ==
    LET initial == [game_id        |-> game_id,
                    board          |-> EmptyBoard,
                    current_player |-> "X",
                    winner         |-> None,
                    is_draw        |-> FALSE,
                    moves_count    |-> 0]
    IN  Return(SetItem(G, game_id, dict(initial)), 201, initial)

\* create_game with game_id the value uuid4().hex returned.
create_game(G, game_id, body) ==
    LET initial == [game_id        |-> game_id,
                    board          |-> EmptyBoard,
                    current_player |-> body.first_player,
                    winner         |-> None,
                    is_draw        |-> FALSE,
                    moves_count    |-> 0]
    IN  Return(SetItem(G, game_id, dict(initial)), 201, initial)

get_game(G, game_id) ==
    LET r == _require_game(G, game_id)
    IN  IF ~r.found THEN HTTPException(G, 404, "Game not found")
        ELSE Return(G, 200, r.game)

NotTurn(player) ==
    IF player = "X" THEN "It is not X's turn" ELSE "It is not O's turn"

\* ApplyMove that flips current_player on every move, game over or not.
ApplyMove_AlwaysSwitch(game, position, player) ==
    LET board1  == [game.board EXCEPT ![position] = player]
        count1  == game.moves_count + 1
        winner  == _calculate_winner(board1)
        placed  == [game EXCEPT !.board = board1, !.moves_count = count1,
                                !.current_player =
                                    IF game.current_player = "X" THEN "O" ELSE "X"]
    IN  IF winner # None
        THEN [placed EXCEPT !.winner = winner, !.is_draw = FALSE]
        ELSE [placed EXCEPT !.is_draw = _is_draw(board1)]

\* ApplyMove without the increment of line 204.
ApplyMove_NoCount(game, position, player) ==
    LET board1  == [game.board EXCEPT ![position] = player]
        winner  == _calculate_winner(board1)
        placed  == [game EXCEPT !.board = board1]
    IN  IF winner # None
        THEN [placed EXCEPT !.winner = winner, !.is_draw = FALSE]
        ELSE IF _is_draw(board1)
             THEN [placed EXCEPT !.is_draw = TRUE]
             ELSE [placed EXCEPT !.is_draw = FALSE,
                                 !.current_player =
                                     IF game.current_player = "X" THEN "O" ELSE "X"]

\* ApplyMove with the draw test run whether or not a line was completed.
ApplyMove_DrawOnWin(game, position, player) ==
    LET board1  == [game.board EXCEPT ![position] = player]
        count1  == game.moves_count + 1
        winner  == _calculate_winner(board1)
        placed  == [game EXCEPT !.board = board1, !.moves_count = count1]
    IN  IF winner # None
        THEN [placed EXCEPT !.winner = winner, !.is_draw = _is_draw(board1)]
        ELSE IF _is_draw(board1)
             THEN [placed EXCEPT !.is_draw = TRUE]
             ELSE [placed EXCEPT !.is_draw = FALSE,
                                 !.current_player =
                                     IF game.current_player = "X" THEN "O" ELSE "X"]

\* ApplyMove with the full-board test made before the search for a line.
ApplyMove_DrawFirst(game, position, player) ==
    LET board1  == [game.board EXCEPT ![position] = player]
        count1  == game.moves_count + 1
        winner  == _calculate_winner(board1)
        placed  == [game EXCEPT !.board = board1, !.moves_count = count1]
    IN  IF _is_draw(board1)
        THEN [placed EXCEPT !.is_draw = TRUE]
        ELSE IF winner # None
             THEN [placed EXCEPT !.winner = winner, !.is_draw = FALSE]
             ELSE [placed EXCEPT !.is_draw = FALSE,
                                 !.current_player =
                                     IF game.current_player = "X" THEN "O" ELSE "X"]

\* ApplyMove without the assignment of line 209: the winner is found but not
\* recorded, and the turn passes on.
ApplyMove_WinnerNotStored(game, position, player) ==
    LET board1  == [game.board EXCEPT ![position] = player]
        count1  == game.moves_count + 1
        winner  == _calculate_winner(board1)
        placed  == [game EXCEPT !.board = board1, !.moves_count = count1]
    IN  IF winner = None /\ _is_draw(board1)
        THEN [placed EXCEPT !.is_draw = TRUE]
        ELSE [placed EXCEPT !.is_draw = FALSE,
                            !.current_player =
                                IF game.current_player = "X" THEN "O" ELSE "X"]

\* make_move, lines 202-214: the move applied to the local model object.
ApplyMove(game, position, player) ==
    LET board1  == [game.board EXCEPT ![position] = player]
        count1  == game.moves_count + 1
        winner  == _calculate_winner(board1)
        placed  == [game EXCEPT !.board = board1, !.moves_count = count1]
    IN  IF winner # None
        THEN [placed EXCEPT !.winner = winner, !.is_draw = FALSE]
        ELSE IF _is_draw(board1)
             THEN [placed EXCEPT !.is_draw = TRUE]
             ELSE [placed EXCEPT !.is_draw = FALSE,
                                 !.current_player =
                                     IF game.current_player = "X" THEN "O" ELSE "X"]

\* make_move that stores the move before it tests whose turn it is.
make_move_StoreThenValidate(G, game_id, position, player) ==
    LET r == _require_game(G, game_id)
    IN  IF ~r.found THEN HTTPException(G, 404, "Game not found")
        ELSE IF r.game.winner # None \/ r.game.is_draw
             THEN HTTPException(G, 409, "Game has already finished")
        ELSE IF r.game.board[position] # None
             THEN HTTPException(G, 400, "Cell already occupied")
        ELSE LET game == ApplyMove(r.game, position, player)
                 G1   == SetItem(G, game_id, dict(game))
             IN  IF player # r.game.current_player
                 THEN HTTPException(G1, 400, NotTurn(player))
                 ELSE Return(G1, 200, game)

\* make_move without the finished-game test of lines 192-193.
make_move_NoFinishedTest(G, game_id, position, player) ==
    LET r == _require_game(G, game_id)
    IN  IF ~r.found THEN HTTPException(G, 404, "Game not found")
        ELSE IF player # r.game.current_player
             THEN HTTPException(G, 400, NotTurn(player))
        ELSE IF r.game.board[position] # None
             THEN HTTPException(G, 400, "Cell already occupied")
        ELSE LET game == ApplyMove(r.game, position, player)
             IN  Return(SetItem(G, game_id, dict(game)), 200, game)

\* make_move without the turn test of lines 195-196.
make_move_NoTurnTest(G, game_id, position, player) ==
    LET r == _require_game(G, game_id)
    IN  IF ~r.found THEN HTTPException(G, 404, "Game not found")
        ELSE IF r.game.winner # None \/ r.game.is_draw
             THEN HTTPException(G, 409, "Game has already finished")
        ELSE IF r.game.board[position] # None
             THEN HTTPException(G, 400, "Cell already occupied")
        ELSE LET game == ApplyMove(r.game, position, player)
             IN  Return(SetItem(G, game_id, dict(game)), 200, game)

\* make_move with the occupied-cell test made before the turn test.
make_move_OccupiedFirst(G, game_id, position, player) ==
    LET r == _require_game(G, game_id)
    IN  IF ~r.found THEN HTTPException(G, 404, "Game not found")
        ELSE IF r.game.winner # None \/ r.game.is_draw
             THEN HTTPException(G, 409, "Game has already finished")
        ELSE IF r.game.board[position] # None
             THEN HTTPException(G, 400, "Cell already occupied")
        ELSE IF player # r.game.current_player
             THEN HTTPException(G, 400, NotTurn(player))
        ELSE LET game == ApplyMove(r.game, position, player)
             IN  Return(SetItem(G, game_id, dict(game)), 200, game)

make_move(G, game_id, position, player) ==
    LET r == _require_game(G, game_id)
    IN  IF ~r.found THEN HTTPException(G, 404, "Game not found")
        ELSE IF r.game.winner # None \/ r.game.is_draw
             THEN HTTPException(G, 409, "Game has already finished")
        ELSE IF player # r.game.current_player
             THEN HTTPException(G, 400, NotTurn(player))
        ELSE IF r.game.board[position] # None
             THEN HTTPException(G, 400, "Cell already occupied")
        ELSE LET game == ApplyMove(r.game, position, player)
             IN  Return(SetItem(G, game_id, dict(game)), 200, game)

\* ResetFields without the assignment of line 239.
ResetFields_KeepPlayer(game) ==
    [game EXCEPT !.board = EmptyBoard,
                 !.winner = None,
                 !.is_draw = FALSE,
                 !.moves_count = 0]

\* ResetFields without the assignment of line 238.
ResetFields_KeepBoard(game) ==
    [game EXCEPT !.current_player = "X",
                 !.winner = None,
                 !.is_draw = FALSE,
                 !.moves_count = 0]

\* reset_game, lines 238-242: the fields overwritten on the local object.
ResetFields(game) ==
    [game EXCEPT !.board = EmptyBoard,
                 !.current_player = "X",
                 !.winner = None,
                 !.is_draw = FALSE,
                 !.moves_count = 0]

reset_game(G, game_id) ==
    LET r == _require_game(G, game_id)
    IN  IF ~r.found THEN HTTPException(G, 404, "Game not found")
        ELSE LET game == ResetFields(r.game)
             IN  Return(SetItem(G, game_id, dict(game)), 200, game)

VARIABLES GAMES, issued, threads, started

vars == <<GAMES, issued, threads, started>>

\* Worker threads of the server's thread pool (FastAPI runs a "def" endpoint
\* in a worker thread, so two requests can be inside a handler at once).
MaxThreads == 2

Workers == 1..MaxThreads

\* Number of requests the clients send in a run with concurrent requests.
MaxRequests == 4

\* A worker that has run no request yet.
IdleThread ==
    [pc |-> "idle", op |-> None, game_id |-> None, status |-> 0,
     read |-> None, game |-> None, raced |-> {}]

\* A worker whose request has been answered.  For a request that went on to
\* write, read is the record the handler had fetched and raced the set of
\* workers that were between their read and their write of the same game
\* when it fetched it.
Answered(op, game_id, status, read, raced) ==
    [pc |-> "done", op |-> op, game_id |-> game_id, status |-> status,
     read |-> read, game |-> None, raced |-> raced]

\* A worker between _require_game and the assignment to GAMES[game_id]: game
\* is its local GameState, already updated.
Pending(op, game_id, read, game, raced) ==
    [pc |-> "persist", op |-> op, game_id |-> game_id, status |-> 0,
     read |-> read, game |-> game, raced |-> raced]

Init ==
    /\ GAMES = [k \in {} |-> None]
    /\ issued = {}
    /\ threads = [w \in Workers |-> IdleThread]
    /\ started = 0

\* uuid.uuid4().hex: an identifier not handed out before.
uuid4 == Ids \ issued

----------------------------------------------------------------------------
(* Requests served one at a time: each action is a whole handler.          *)

CreateGame ==
    \E first_player \in PLAYER \cup {None} : \E game_id \in uuid4 :
        /\ GAMES' = create_game(GAMES, game_id, CreateGameRequest(first_player)).GAMES
        /\ issued' = issued \cup {game_id}
        /\ UNCHANGED <<threads, started>>

GetGame ==
    \E game_id \in RequestIds :
        /\ GAMES' = get_game(GAMES, game_id).GAMES
        /\ UNCHANGED <<issued, threads, started>>

MakeMove ==
    \E game_id \in RequestIds : \E position \in PlayedOn(game_id) : \E player \in PLAYER :
        /\ GAMES' = make_move(GAMES, game_id, position, player).GAMES
        /\ UNCHANGED <<issued, threads, started>>

ResetGame ==
    \E game_id \in RequestIds :
        /\ GAMES' = reset_game(GAMES, game_id).GAMES
        /\ UNCHANGED <<issued, threads, started>>

Next == CreateGame \/ GetGame \/ MakeMove \/ ResetGame

Spec == Init /\ [][Next]_vars

----------------------------------------------------------------------------
(* Requests served by worker threads.  A handler's steps on the shared     *)
(* dict are its read, GAMES.get(game_id) in _require_game, and its write,   *)
(* GAMES[game_id] = game.dict(); everything between them works on the      *)
(* thread's own GameState, and no lock is held, so other threads' reads and *)
(* writes can fall between the two.                                        *)

\* The workers inside a read-modify-write of game_id.
Inside(game_id) ==
    {v \in Workers : threads[v].pc = "persist" /\ threads[v].game_id = game_id}

\* A worker takes the next request.
Accepts(w) == threads[w].pc # "persist" /\ started < MaxRequests

\* create_game: one write, under a new identifier.
ThreadCreateGame(w) ==
    /\ Accepts(w)
    /\ \E first_player \in PLAYER \cup {None} : \E game_id \in uuid4 :
           LET r == create_game(GAMES, game_id, CreateGameRequest(first_player))
           IN  /\ GAMES' = r.GAMES
               /\ issued' = issued \cup {game_id}
               /\ threads' = [threads EXCEPT
                                 ![w] = Answered("create_game", game_id, r.status, None, {})]
    /\ started' = started + 1

\* get_game: one read.
ThreadGetGame(w) ==
    /\ Accepts(w)
    /\ \E game_id \in RequestIds :
           threads' = [threads EXCEPT
                         ![w] = Answered("get_game", game_id,
                                         get_game(GAMES, game_id).status, None, {})]
    /\ started' = started + 1
    /\ UNCHANGED <<GAMES, issued>>

\* make_move up to line 214: the read, the tests and the move on the local
\* object.  A rejected request is answered here.
ThreadMakeMoveRead(w) ==
    /\ Accepts(w)
    /\ \E game_id \in RequestIds : \E position \in PlayedOn(game_id) : \E player \in PLAYER :
           LET r == make_move(GAMES, game_id, position, player)
           IN  threads' = [threads EXCEPT
                             ![w] = IF r.status = 200
                                    THEN Pending("make_move", game_id, GAMES[game_id],
                                                 GameState(r.body), Inside(game_id))
                                    ELSE Answered("make_move", game_id, r.status, None, {})]
    /\ started' = started + 1
    /\ UNCHANGED <<GAMES, issued>>

\* reset_game up to line 242.
ThreadResetGameRead(w) ==
    /\ Accepts(w)
    /\ \E game_id \in RequestIds :
           LET r == reset_game(GAMES, game_id)
           IN  threads' = [threads EXCEPT
                             ![w] = IF r.status = 200
                                    THEN Pending("reset_game", game_id, GAMES[game_id],
                                                 GameState(r.body), Inside(game_id))
                                    ELSE Answered("reset_game", game_id, r.status, None, {})]
    /\ started' = started + 1
    /\ UNCHANGED <<GAMES, issued>>

\* Lines 217 and 243: GAMES[game_id] = game.dict(), then the 200 answer.
ThreadPersist(w) ==
    /\ threads[w].pc = "persist"
    /\ GAMES' = SetItem(GAMES, threads[w].game_id, dict(threads[w].game))
    /\ threads' = [threads EXCEPT
                      ![w] = Answered(threads[w].op, threads[w].game_id, 200,
                                      threads[w].read, threads[w].raced)]
    /\ UNCHANGED <<issued, started>>

ThreadNext ==
    \E w \in Workers :
        \/ ThreadCreateGame(w)
        \/ ThreadGetGame(w)
        \/ ThreadMakeMoveRead(w)
        \/ ThreadResetGameRead(w)
        \/ ThreadPersist(w)

ThreadSpec == Init /\ [][ThreadNext]_vars

----------------------------------------------------------------------------
(* Vocabulary of the properties.                                           *)

\* Number of non-empty cells of a board.
Marks(board) == Cardinality({i \in DOMAIN board : board[i] # None})

\* A terminal game: winner set or is_draw true.
Terminal(game) == game.winner # None \/ game.is_draw

\* The 3 rows, 3 columns and 2 diagonals of the 3x3 grid, as sets of cells.
Lines ==
    {{3 * r, 3 * r + 1, 3 * r + 2} : r \in 0..2}
        \cup {{c, c + 3, c + 6} : c \in 0..2}
        \cup {{0, 4, 8}, {2, 4, 6}}

\* The cells of line l all hold the mark p.
LineOf(board, l, p) == \A i \in l : board[i] = p

\* Some line holds three identical marks.
HasLine(board) == \E l \in Lines : \E p \in PLAYER : LineOf(board, l, p)

\* The other mark.
Other(p) == IF p = "X" THEN "O" ELSE "X"

\* The record a fresh game is stored as.
FreshGame(game_id, first_player) ==
    [game_id |-> game_id, board |-> [i \in 0..8 |-> None],
     current_player |-> first_player, winner |-> None,
     is_draw |-> FALSE, moves_count |-> 0]

----------------------------------------------------------------------------
\* C1: in every reachable store, after any sequence of create_game, make_move
\* (accepted or rejected) and reset_game, each stored game's moves_count is the
\* number of non-empty cells of its board.
MovesCountIsMarks ==
    \A id \in DOMAIN GAMES : GAMES[id].moves_count = Marks(GAMES[id].board)

\* C1: the property above holds in every reachable state.
AlwaysMovesCountIsMarks == []MovesCountIsMarks

\* C1 witness: a game on which nine moves were accepted.
MovesCountNine ==
    \E id \in DOMAIN GAMES :
        GAMES[id].moves_count = 9 /\ Marks(GAMES[id].board) = 9

\* C2: no stored game has winner set and is_draw true together; a game whose
\* ninth mark completed a line has winner set and is_draw false.
NeverWinnerAndDraw ==
    \A id \in DOMAIN GAMES :
        /\ ~(GAMES[id].winner # None /\ GAMES[id].is_draw)
        /\ (Marks(GAMES[id].board) = 9 /\ HasLine(GAMES[id].board))
               => (GAMES[id].winner \in PLAYER /\ ~GAMES[id].is_draw)

\* C2: the property above holds in every reachable state.
AlwaysNeverWinnerAndDraw == []NeverWinnerAndDraw

\* C2 witness: a full board won by its ninth mark.
WonOnNinthMove ==
    \E id \in DOMAIN GAMES :
        /\ Marks(GAMES[id].board) = 9
        /\ HasLine(GAMES[id].board)
        /\ GAMES[id].winner \in PLAYER

\* C3, per store: on a terminal game every make_move, whatever the position
\* and player, is answered 409 and leaves the store as it is.
TerminalRejectsMoves ==
    \A id \in DOMAIN GAMES : \A position \in Positions : \A player \in PLAYER :
        Terminal(GAMES[id]) =>
            LET r == make_move(GAMES, id, position, player)
            IN  /\ r.status = 409
                /\ r.detail = "Game has already finished"
                /\ r.GAMES = GAMES

\* C3, per step: a terminal game's record changes only by becoming the
\* record reset_game stores.
TerminalUntilReset ==
    \A id \in DOMAIN GAMES :
        (Terminal(GAMES[id]) /\ GAMES'[id] # GAMES[id])
            => GAMES'[id] = reset_game(GAMES, id).GAMES[id]

\* C3: once a game is terminal, every later make_move on it fails with 409
\* and changes nothing, until reset_game is applied.
TerminalIsFinal == []TerminalRejectsMoves /\ [][TerminalUntilReset]_vars

\* C3 witness: a drawn game in the store answers a move by the player on
\* turn with 409.
TerminalGameRefuses ==
    \E id \in DOMAIN GAMES :
        /\ GAMES[id].is_draw
        /\ make_move(GAMES, id, 0, GAMES[id].current_player).status = 409

\* C4 as stated: every accepted make_move changes current_player to the other
\* mark, and a rejected make_move leaves it as it was.
AlternatesOnEveryAcceptedMove ==
    \A id \in DOMAIN GAMES : \A position \in Positions : \A player \in PLAYER :
        LET r == make_move(GAMES, id, position, player)
        IN  IF r.status = 200
            THEN r.GAMES[id].current_player = Other(GAMES[id].current_player)
            ELSE r.GAMES[id].current_player = GAMES[id].current_player

\* C4 amended: an accepted make_move that leaves the game non-terminal changes
\* current_player to the other mark, an accepted make_move that ends the game
\* leaves current_player as it was, and a rejected make_move never changes it.
AlternatesOnNonTerminalMove ==
    \A id \in DOMAIN GAMES : \A position \in Positions : \A player \in PLAYER :
        LET r == make_move(GAMES, id, position, player)
        IN  IF r.status = 200 /\ ~Terminal(r.GAMES[id])
            THEN r.GAMES[id].current_player = Other(GAMES[id].current_player)
            ELSE r.GAMES[id].current_player = GAMES[id].current_player

\* C4: the property above holds in every reachable state.
AlwaysAlternatesOnNonTerminalMove == []AlternatesOnNonTerminalMove

\* C4 witness: X's first move was accepted and handed the turn to O, a move by
\* X is now rejected, and a later game ended with the turn left to its winner.
TurnPassedAndKept ==
    /\ \E id \in DOMAIN GAMES : \E position \in Positions :
           /\ GAMES[id].moves_count = 1
           /\ GAMES[id].board[position] = "X"
           /\ GAMES[id].current_player = "O"
           /\ make_move(GAMES, id, position, "X").status = 400
    /\ \E id \in DOMAIN GAMES :
           GAMES[id].winner \in PLAYER /\ GAMES[id].current_player = GAMES[id].winner

\* C5: a request that fails (make_move with 404, 409 or 400; get_game or
\* reset_game with 404) leaves the whole store as it was: same keys, same
\* records.
FailedRequestChangesNothing ==
    \A id \in RequestIds :
        /\ \A position \in Positions : \A player \in PLAYER :
               LET r == make_move(GAMES, id, position, player)
               IN  r.status # 200 => r.GAMES = GAMES
        /\ get_game(GAMES, id).status # 200 => get_game(GAMES, id).GAMES = GAMES
        /\ reset_game(GAMES, id).status # 200 => reset_game(GAMES, id).GAMES = GAMES

\* C5: the property above holds in every reachable state.
AlwaysFailedRequestChangesNothing == []FailedRequestChangesNothing

\* C5 witness: a store on which all four kinds of make_move failure and the
\* 404 of get_game and reset_game occur.
EveryFailureKindOccurs ==
    \E won \in DOMAIN GAMES : \E open \in DOMAIN GAMES : \E position \in Positions :
        /\ make_move(GAMES, 0, 0, "X").status = 404
        /\ get_game(GAMES, 0).status = 404
        /\ reset_game(GAMES, 0).status = 404
        /\ make_move(GAMES, won, 0, "X").status = 409
        /\ GAMES[open].board[position] # None
        /\ make_move(GAMES, open, position, GAMES[open].current_player).detail
               = "Cell already occupied"
        /\ make_move(GAMES, open, position, Other(GAMES[open].current_player)).detail
               = NotTurn(Other(GAMES[open].current_player))

\* C6: reset_game on a stored game, whatever its state, answers 200 with an
\* empty board, current_player "X", no winner, is_draw false, moves_count 0
\* and the same game_id, stores exactly the record it returns, and adds no key.
ResetYieldsFreshX ==
    \A id \in DOMAIN GAMES :
        LET r == reset_game(GAMES, id)
        IN  /\ r.status = 200
            /\ r.body = FreshGame(GAMES[id].game_id, "X")
            /\ r.body.game_id = id
            /\ r.GAMES[id] = r.body
            /\ DOMAIN r.GAMES = DOMAIN GAMES

\* C6: the property above holds in every reachable state.
AlwaysResetYieldsFreshX == []ResetYieldsFreshX

\* C6 witness: a game created with first_player "O" and played to a draw (its
\* turn stays with "O"), which reset_game hands to "X".
ResetOfDrawnOGame ==
    \E id \in DOMAIN GAMES :
        /\ GAMES[id].is_draw
        /\ GAMES[id].current_player = "O"
        /\ reset_game(GAMES, id).GAMES[id].current_player = "X"

\* C8: create_game, for any first_player (or none) and any identifier uuid4
\* can return, answers 201 with an empty board, current_player the requested
\* first_player ("X" when none is given), no winner, is_draw false and
\* moves_count 0, under a key the store did not hold, and leaves every game
\* already stored as it was.
CreateYieldsFreshGame ==
    \A first_player \in PLAYER \cup {None} : \A id \in uuid4 :
        LET r == create_game(GAMES, id, CreateGameRequest(first_player))
        IN  /\ r.status = 201
            /\ r.body = FreshGame(id, IF first_player = None THEN "X" ELSE first_player)
            /\ id \notin DOMAIN GAMES
            /\ DOMAIN r.GAMES = DOMAIN GAMES \cup {id}
            /\ r.GAMES[id] = r.body
            /\ \A k \in DOMAIN GAMES : r.GAMES[k] = GAMES[k]

\* C8: the property above holds in every reachable state.
AlwaysCreateYieldsFreshGame == []CreateYieldsFreshGame

\* C8 witness: uuid4 can still return a new identifier while the store holds
\* a game that was created with first_player "O" and has taken O's first move.
CreateBesideGameInProgress ==
    /\ uuid4 # {}
    /\ \E k \in DOMAIN GAMES : \E position \in Positions :
           /\ GAMES[k].moves_count = 1
           /\ GAMES[k].board[position] = "O"

\* C9: get_game, make_move and reset_game answer 404 on every identifier
\* create_game has not returned, and never answer 404 on an identifier it has
\* returned, however long ago.
NotFoundIffNeverCreated ==
    \A id \in RequestIds :
        LET codes == {get_game(GAMES, id).status, reset_game(GAMES, id).status}
                       \cup {make_move(GAMES, id, position, player).status :
                                 position \in Positions, player \in PLAYER}
        IN  IF id \in issued THEN 404 \notin codes ELSE codes = {404}

\* C9: the property above holds in every reachable state.
AlwaysNotFoundIffNeverCreated == []NotFoundIffNeverCreated

\* C9 witness: every identifier uuid4 can return has been created, one game
\* is finished, and the identifier 0 is still answered 404.
OldGamesStillFound ==
    /\ issued = Ids
    /\ \E id \in issued : Terminal(GAMES[id]) /\ get_game(GAMES, id).status = 200
    /\ get_game(GAMES, 0).status = 404

\* Two make_move requests, both answered 200, that fetched the same record
\* of the same game, the second while the first was between its read and its
\* write.
RacedMoves(w1, w2) ==
    /\ w1 # w2
    /\ threads[w1].pc = "done" /\ threads[w2].pc = "done"
    /\ threads[w1].op = "make_move" /\ threads[w2].op = "make_move"
    /\ threads[w1].status = 200 /\ threads[w2].status = 200
    /\ threads[w1].game_id = threads[w2].game_id
    /\ threads[w1].read = threads[w2].read
    /\ w1 \in threads[w2].raced

\* C7: requests on one game are serialized, so no two make_move requests on a
\* game read the same record and are both answered 200 while the stored game
\* holds only one move more than the record they read (one of the two accepted
\* moves lost).
NoLostUpdate ==
    \A w1 \in Workers : \A w2 \in Workers :
        RacedMoves(w1, w2) =>
            GAMES[threads[w1].game_id].moves_count
                # threads[w1].read.moves_count + 1

----------------------------------------------------------------------------
(* The scenario of C10.                                                    *)

\* X:0, O:1, X:2, O:3, X:4, O:5, X:7, O:6, X:8
Scenario10 ==
    << <<0, "X">>, <<1, "O">>, <<2, "X">>, <<3, "O">>, <<4, "X">>,
       <<5, "O">>, <<7, "X">>, <<6, "O">>, <<8, "X">> >>

RECURSIVE Replay(_, _, _, _)
\* The answers to the first k moves of a sequence sent to game id one after
\* another, starting from the store G.
Replay(G, id, moves, k) ==
    IF k = 0 THEN << >>
    ELSE LET earlier == Replay(G, id, moves, k - 1)
             before  == IF k = 1 THEN G ELSE earlier[k - 1].GAMES
         IN  Append(earlier, make_move(before, id, moves[k][1], moves[k][2]))

\* C10 as stated: on a game just created with first_player "X", the nine
\* moves of the scenario are accepted one by one, complete no line, and end
\* with is_draw true and no winner.
Scenario10EndsInDraw ==
    \A id \in DOMAIN GAMES :
        GAMES[id] = FreshGame(id, "X") =>
            LET answers == Replay(GAMES, id, Scenario10, 9)
                end     == answers[9].body
            IN  /\ \A k \in 1..9 : answers[k].status = 200
                /\ ~HasLine(end.board) /\ end.is_draw /\ end.winner = None

\* C10 amended: the nine moves are accepted one by one, the first eight leave
\* the game non-terminal, and the ninth (X:8) completes the diagonal 0, 4, 8:
\* the game ends with winner "X" and is_draw false.
Scenario10EndsInWinForX ==
    \A id \in DOMAIN GAMES :
        GAMES[id] = FreshGame(id, "X") =>
            LET answers == Replay(GAMES, id, Scenario10, 9)
                end     == answers[9]
            IN  /\ \A k \in 1..9 : answers[k].status = 200
                /\ \A k \in 1..8 : ~Terminal(answers[k].body)
                /\ LineOf(end.body.board, {0, 4, 8}, "X")
                /\ end.body.winner = "X"
                /\ ~end.body.is_draw
                /\ end.body.moves_count = 9
                /\ end.GAMES[id] = end.body

\* C10: the property above holds in every reachable state.
AlwaysScenario10EndsInWinForX == []Scenario10EndsInWinForX

\* C10 witness: the board the scenario ends on is stored, with the result the
\* ninth move gave it.
Scenario10Played ==
    \E id \in DOMAIN GAMES :
        /\ \A k \in 1..9 : GAMES[id].board[Scenario10[k][1]] = Scenario10[k][2]
        /\ GAMES[id].winner = "X"
        /\ GAMES[id].moves_count = 9

----------------------------------------------------------------------------
(* The scenarios of C11.                                                   *)

\* X:0, O:3, X:1, O:4, X:2
Scenario11 ==
    << <<0, "X">>, <<3, "O">>, <<1, "X">>, <<4, "O">>, <<2, "X">> >>

\* C11: on a game just created with first_player "X", move (0, X) is answered
\* 200 with board[0] = "X", current_player "O" and moves_count 1; move (0, O)
\* sent next is answered 400 "Cell already occupied" and move (1, X) sent after
\* it 400 "It is not X's turn", neither changing the store; and on the fresh
\* game the moves X:0, O:3, X:1, O:4, X:2 are accepted one by one and end with
\* winner "X" and is_draw false.
Scenario11Holds ==
    \A id \in DOMAIN GAMES :
        GAMES[id] = FreshGame(id, "X") =>
            LET first   == make_move(GAMES, id, 0, "X")
                second  == make_move(first.GAMES, id, 0, "O")
                third   == make_move(second.GAMES, id, 1, "X")
                answers == Replay(GAMES, id, Scenario11, 5)
            IN  /\ first.status = 200
                /\ first.body.board = [EmptyBoard EXCEPT ![0] = "X"]
                /\ first.body.current_player = "O"
                /\ first.body.moves_count = 1
                /\ first.GAMES[id] = first.body
                /\ second.status = 400
                /\ second.detail = "Cell already occupied"
                /\ second.GAMES = first.GAMES
                /\ third.status = 400
                /\ third.detail = "It is not X's turn"
                /\ third.GAMES = first.GAMES
                /\ \A k \in 1..5 : answers[k].status = 200
                /\ \A k \in 1..4 : ~Terminal(answers[k].body)
                /\ answers[5].body.winner = "X"
                /\ ~answers[5].body.is_draw
                /\ answers[5].GAMES[id] = answers[5].body

\* C11: the property above holds in every reachable state.
AlwaysScenario11Holds == []Scenario11Holds

\* C11 witness: the store holds the game the five moves lead to from a fresh
\* game of "X": X on the top row, O on cells 3 and 4, winner "X".
Scenario11Played ==
    \E id \in DOMAIN GAMES :
        /\ GAMES[id].board = [i \in Positions |->
                                 IF i \in {0, 1, 2} THEN "X"
                                 ELSE IF i \in {3, 4} THEN "O" ELSE None]
        /\ GAMES[id].winner = "X"
        /\ ~GAMES[id].is_draw
        /\ GAMES[id].moves_count = 5
        /\ make_move(GAMES, id, 5, "O").status = 409

----------------------------------------------------------------------------
\* C12, per store: whatever request is served next, create_game, make_move or
\* reset_game on game_id leaves every other stored game's record as it is, and
\* get_game leaves the whole store as it is.
RequestTouchesOnlyItsGame ==
    /\ \A id \in RequestIds :
           /\ get_game(GAMES, id).GAMES = GAMES
           /\ \A k \in DOMAIN GAMES \ {id} :
                  /\ reset_game(GAMES, id).GAMES[k] = GAMES[k]
                  /\ \A position \in Positions : \A player \in PLAYER :
                         make_move(GAMES, id, position, player).GAMES[k] = GAMES[k]
    /\ \A id \in uuid4 : \A first_player \in PLAYER :
           \A k \in DOMAIN GAMES :
               create_game(GAMES, id, CreateGameRequest(first_player)).GAMES[k] = GAMES[k]

\* Worker w has taken a step: its position, its request or its answer changed.
Stepped(w) ==
    \/ threads'[w].pc # threads[w].pc
    \/ threads'[w].op # threads[w].op
    \/ threads'[w].status # threads[w].status
    \/ threads[w].pc # "idle" /\ threads'[w].game_id # threads[w].game_id

\* C12, per step of a worker thread: the step changes no record but that of
\* the game the worker's request targets, removes no game, and changes nothing
\* at all when the request is a get_game.
StepTouchesOnlyItsGame ==
    /\ (\A w \in Workers : ~Stepped(w)) => (GAMES' = GAMES)
    /\ \A w \in Workers :
           Stepped(w) =>
               /\ DOMAIN GAMES \subseteq DOMAIN GAMES'
               /\ DOMAIN GAMES' \subseteq DOMAIN GAMES \cup {threads'[w].game_id}
               /\ \A k \in DOMAIN GAMES \ {threads'[w].game_id} : GAMES'[k] = GAMES[k]
               /\ threads'[w].op = "get_game" => GAMES' = GAMES

\* C12: requests on different games do not interfere, in any interleaving of
\* the worker threads' reads and writes.
DifferentGamesDoNotInterfere ==
    []RequestTouchesOnlyItsGame /\ [][StepTouchesOnlyItsGame]_vars

\* C12 witness: one worker's move on a game has been stored while another
\* worker is between its read and its write of a different game, whose record
\* is still the one that worker read.
MoveBesideOtherGame ==
    \E w1 \in Workers : \E w2 \in Workers :
        /\ threads[w1].pc = "done" /\ threads[w1].op = "make_move"
        /\ threads[w1].status = 200
        /\ GAMES[threads[w1].game_id].moves_count = 1
        /\ threads[w2].pc = "persist"
        /\ threads[w2].game_id # threads[w1].game_id
        /\ GAMES[threads[w2].game_id] = threads[w2].read

----------------------------------------------------------------------------
\* C13: in every reachable store a game with is_draw true has all 9 cells
\* non-empty, no complete line and no winner, and every stored game whose
\* board is full without a complete line has is_draw true.
DrawIffFullWithoutLine ==
    \A id \in DOMAIN GAMES :
        /\ GAMES[id].is_draw =>
               /\ Marks(GAMES[id].board) = 9
               /\ ~HasLine(GAMES[id].board)
               /\ GAMES[id].winner = None
        /\ (Marks(GAMES[id].board) = 9 /\ ~HasLine(GAMES[id].board))
               => GAMES[id].is_draw

\* C13: the property above holds in every reachable state.
AlwaysDrawIffFullWithoutLine == []DrawIffFullWithoutLine

\* C13 witness: a drawn game (full board, no line) is stored.
DrawnGameStored ==
    \E id \in DOMAIN GAMES :
        /\ GAMES[id].is_draw
        /\ Marks(GAMES[id].board) = 9
        /\ ~HasLine(GAMES[id].board)

----------------------------------------------------------------------------
\* C14: in every reachable store a game's winner is set exactly when its board
\* holds one of the 8 lines with three identical marks; and every accepted
\* make_move returns a game whose winner is set exactly when the board it
\* returns holds such a line, the winner then being the mark that moved.
WinnerIffLine ==
    \A id \in DOMAIN GAMES :
        /\ GAMES[id].winner \in PLAYER \cup {None}
        /\ (GAMES[id].winner # None) <=> HasLine(GAMES[id].board)
        /\ \A position \in Positions : \A player \in PLAYER :
               LET r == make_move(GAMES, id, position, player)
               IN  r.status = 200 =>
                       /\ (r.body.winner # None) <=> HasLine(r.body.board)
                       /\ r.body.winner \in {None, player}
                       /\ r.GAMES[id].winner = r.body.winner

\* C14: the property above holds in every reachable state.
AlwaysWinnerIffLine == []WinnerIffLine

\* C14 witness: a stored game that "O" won by completing a line, the turn
\* left with "O", who made the winning move.
WonByO ==
    \E id \in DOMAIN GAMES : \E l \in Lines :
        /\ GAMES[id].winner = "O"
        /\ LineOf(GAMES[id].board, l, "O")
        /\ GAMES[id].current_player = "O"

----------------------------------------------------------------------------
\* C15, per accepted move: a make_move answered 200 that leaves the game
\* non-terminal hands current_player to the other mark than the mover's, one
\* that ends the game leaves current_player the mover's mark, and no move by
\* the same mark is accepted on the game as the move left it.
MoverHandsOverTurn ==
    \A id \in DOMAIN GAMES : \A position \in Positions : \A player \in PLAYER :
        LET r == make_move(GAMES, id, position, player)
        IN  r.status = 200 =>
                /\ player = GAMES[id].current_player
                /\ r.body.current_player =
                       IF Terminal(r.body) THEN player ELSE Other(player)
                /\ r.GAMES[id] = r.body
                /\ \A again \in Positions :
                       make_move(r.GAMES, id, again, player).status # 200

\* C15, per step: a stored game's record changes only by an accepted
\* make_move on it or by reset_game, so the game an accepted move is made on
\* is the game the accepted move before it left, unless a reset came between.
RecordChangesByMoveOrReset ==
    \A id \in DOMAIN GAMES :
        GAMES'[id] # GAMES[id] =>
            \/ GAMES'[id] = reset_game(GAMES, id).GAMES[id]
            \/ \E position \in Positions : \E player \in PLAYER :
                   LET r == make_move(GAMES, id, position, player)
                   IN  r.status = 200 /\ GAMES'[id] = r.GAMES[id]

\* C15: accepted moves hand the turn over as above, so between two resets
\* the marks of consecutive accepted moves on a game strictly alternate.
AcceptedMovesAlternate ==
    []MoverHandsOverTurn /\ [][RecordChangesByMoveOrReset]_vars

\* C15 witness: a game created for "O" on which two moves were accepted, O's
\* and then X's, the turn back with "O" and a second move by "X" rejected.
TwoMovesAlternated ==
    \E id \in DOMAIN GAMES : \E p1 \in Positions : \E p2 \in Positions :
        /\ GAMES[id].moves_count = 2
        /\ GAMES[id].board[p1] = "O" /\ GAMES[id].board[p2] = "X"
        /\ GAMES[id].current_player = "O"
        /\ \A again \in Positions :
               make_move(GAMES, id, again, "X").detail = "It is not X's turn"

----------------------------------------------------------------------------
\* The answer C16 prescribes to a move: the first that applies of NotFound,
\* AlreadyFinished, WrongTurn and CellOccupied, and acceptance when none does.
Verdict(G, game_id, position, player) ==
    IF game_id \notin DOMAIN G
    THEN <<404, "Game not found">>
    ELSE IF Terminal(G[game_id])
    THEN <<409, "Game has already finished">>
    ELSE IF player # G[game_id].current_player
    THEN <<400, IF player = "X" THEN "It is not X's turn" ELSE "It is not O's turn">>
    ELSE IF G[game_id].board[position] # None
    THEN <<400, "Cell already occupied">>
    ELSE <<200, None>>

\* C16: make_move answers with exactly one error kind chosen in the order
\* NotFound (404), AlreadyFinished (409), WrongTurn (400), CellOccupied (400),
\* so a move on a terminal game is 409 even when out of turn or on an occupied
\* cell, and it accepts the move (200) exactly when none of the four applies.
ErrorsInFixedOrder ==
    \A id \in RequestIds : \A position \in Positions : \A player \in PLAYER :
        LET r == make_move(GAMES, id, position, player)
        IN  /\ <<r.status, r.detail>> = Verdict(GAMES, id, position, player)
            /\ r.status \in {200, 400, 404, 409}
            /\ (id \in DOMAIN GAMES /\ Terminal(GAMES[id])) => r.status = 409

\* C16: the property above holds in every reachable state.
AlwaysErrorsInFixedOrder == []ErrorsInFixedOrder

\* C16 witness: a finished game on which an out-of-turn move on an occupied
\* cell is answered 409, beside a game in progress on which an out-of-turn
\* move on an occupied cell is answered with the turn error.
SeveralErrorsApplyAtOnce ==
    \E over \in DOMAIN GAMES : \E open \in DOMAIN GAMES :
        \E p1 \in Positions : \E p2 \in Positions :
            /\ Terminal(GAMES[over])
            /\ GAMES[over].board[p1] # None
            /\ make_move(GAMES, over, p1, Other(GAMES[over].current_player)).status = 409
            /\ ~Terminal(GAMES[open])
            /\ GAMES[open].board[p2] # None
            /\ make_move(GAMES, open, p2, Other(GAMES[open].current_player)).detail
                   = NotTurn(Other(GAMES[open].current_player))

----------------------------------------------------------------------------
\* C17: in every reachable store each game has a board of exactly 9 cells and
\* a moves_count within 0..9, every game whose board is full is terminal, and
\* a game that has taken 9 moves since its creation or last reset accepts no
\* further move.
AtMostNineMoves ==
    \A id \in DOMAIN GAMES :
        /\ DOMAIN GAMES[id].board = 0..8
        /\ GAMES[id].moves_count \in 0..9
        /\ Marks(GAMES[id].board) = 9 => Terminal(GAMES[id])
        /\ GAMES[id].moves_count = 9 =>
               \A position \in Positions : \A player \in PLAYER :
                   make_move(GAMES, id, position, player).status # 200

\* C17: the property above holds in every reachable state.
AlwaysAtMostNineMoves == []AtMostNineMoves

\* C17 witness: a game that took 9 moves, its board full, refusing a tenth
\* from either player on every cell.
TenthMoveRefused ==
    \E id \in DOMAIN GAMES :
        /\ GAMES[id].moves_count = 9
        /\ \A i \in Positions : GAMES[id].board[i] \in PLAYER
        /\ \A position \in Positions : \A player \in PLAYER :
               make_move(GAMES, id, position, player).status = 409

----------------------------------------------------------------------------
\* C18: with requests served one at a time, no stored board holds a complete
\* line of "X" and a complete line of "O" together, so every complete line on
\* a board carries the mark _calculate_winner returns, whichever of the 8
\* lines it tests first.
LinesCarryOneMark ==
    \A id \in DOMAIN GAMES :
        /\ ~(\E lx \in Lines : \E lo \in Lines :
                 LineOf(GAMES[id].board, lx, "X") /\ LineOf(GAMES[id].board, lo, "O"))
        /\ \A l \in Lines : \A p \in PLAYER :
               LineOf(GAMES[id].board, l, p) => _calculate_winner(GAMES[id].board) = p

\* C18: the property above holds in every reachable state.
AlwaysLinesCarryOneMark == []LinesCarryOneMark

\* C18 witness: a stored board on which one move completed two lines at
\* once, both of the winner's mark.
TwoLinesOfOneMark ==
    \E id \in DOMAIN GAMES : \E l1 \in Lines : \E l2 \in Lines :
        /\ l1 # l2
        /\ GAMES[id].winner \in PLAYER
        /\ LineOf(GAMES[id].board, l1, GAMES[id].winner)
        /\ LineOf(GAMES[id].board, l2, GAMES[id].winner)

----------------------------------------------------------------------------
\* Number of cells of a board that hold the mark p.
Count(board, p) == Cardinality({i \in DOMAIN board : board[i] = p})

\* C19: with requests served one at a time, on every stored board the numbers
\* of "X" cells and "O" cells differ by at most 1, and in a non-terminal game
\* whose counts differ current_player is the mark with fewer cells.
MarksBalanced ==
    \A id \in DOMAIN GAMES :
        LET x == Count(GAMES[id].board, "X")
            o == Count(GAMES[id].board, "O")
        IN  /\ x - o \in {-1, 0, 1}
            /\ (~Terminal(GAMES[id]) /\ x < o) => GAMES[id].current_player = "X"
            /\ (~Terminal(GAMES[id]) /\ o < x) => GAMES[id].current_player = "O"

\* C19: the property above holds in every reachable state.
AlwaysMarksBalanced == []MarksBalanced

\* C19 witness: a game in progress that "O" opened, holding two "O" cells and
\* one "X" cell, the turn with "X".
OAheadXToMove ==
    \E id \in DOMAIN GAMES :
        /\ ~Terminal(GAMES[id])
        /\ Count(GAMES[id].board, "O") = 2
        /\ Count(GAMES[id].board, "X") = 1
        /\ GAMES[id].current_player = "X"

----------------------------------------------------------------------------
(* Worker threads started on a store that already holds a game in progress. *)

\* The store after create_game has stored game 1 for "X" and the first k
\* moves of a script were played on it, one request at a time.
Played(moves, k) ==
    LET created == create_game([i \in {} |-> None], 1, CreateGameRequest("X")).GAMES
    IN  IF k = 0 THEN created ELSE Replay(created, 1, moves, k)[k].GAMES

\* The workers have served no request yet; game 1 is one move short of the
\* end of Scenario10 (a full board) or of Scenario11 (a line for "X").
RaceInit ==
    /\ GAMES \in {Played(Scenario10, 8), Played(Scenario11, 4)}
    /\ issued = {1}
    /\ threads = [w \in Workers |-> IdleThread]
    /\ started = 0

RaceSpec == RaceInit /\ [][ThreadNext]_vars

\* C20: even when make_move and reset_game requests on one game interleave
\* with no lock between a request's read and its write of the whole record,
\* every record in the store is consistent: moves_count is the number of
\* non-empty cells, winner and is_draw are not both set, winner is set exactly
\* when the board holds a complete line, and game_id is the key of the record.
StoredRecordsConsistent ==
    \A id \in DOMAIN GAMES :
        /\ GAMES[id].moves_count = Marks(GAMES[id].board)
        /\ ~(GAMES[id].winner # None /\ GAMES[id].is_draw)
        /\ (GAMES[id].winner # None) <=> HasLine(GAMES[id].board)
        /\ GAMES[id].game_id = id

\* C20: the property above holds in every reachable state.
AlwaysStoredRecordsConsistent == []StoredRecordsConsistent

\* C20 witness: two moves raced on a game, both were answered 200 and one of
\* them was lost; the record left in the store is the won game of the other.
WinSurvivesRace ==
    \E w1 \in Workers : \E w2 \in Workers :
        /\ RacedMoves(w1, w2)
        /\ GAMES[threads[w1].game_id].winner = "X"
        /\ GAMES[threads[w1].game_id].moves_count = threads[w1].read.moves_count + 1

=============================================================================
